---- MODULE Spec2Model ----
(***************************************************************************)
(* Model of the RFP question-answering pipeline of sbwbs/rfp-rag-hybrid:   *)
(*   - DocumentProcessor.chunk_text        (src/utils/document_processor.py)*)
(*   - SearchEngine                         (src/utils/search.py)           *)
(*   - AnswerFormatter                      (src/utils/answer_formatter.py) *)
(*                                                                         *)
(* Texts are sequences of one-character strings.  Similarity scores are    *)
(* exact decimals in hundredths, confidences exact decimals in thousandths.*)
(***************************************************************************)
EXTENDS Integers, Sequences, FiniteSets, TLC

VARIABLES
    \* ---- DocumentProcessor.chunk_text ----
    text,        \* the text argument
    chunk_size,  \* the chunk_size argument
    overlap,     \* the overlap argument
    start,       \* local variable start
    chunks,      \* local list chunks (first MaxChunks entries), each entry with
                 \* the offsets it was sliced with
    cpc,         \* position in chunk_text: "scan" (loop head) or "done" (returned)
    \* ---- SearchEngine / AnswerFormatter ----
    collection,     \* the Qdrant collection: point id -> payload
    query,          \* the query of the request in progress
    limit,          \* its limit
    search_results, \* search_and_answer: search_results
    prompt,         \* the context sent to the completion model, if it was called
    llm_calls,      \* completion calls made for the request in progress
    completion,     \* what the completion call answered or raised, if it was made
    answer_data,    \* search_and_answer: answer_data
    results,        \* the dict search_and_answer returned
    formatted,      \* the dict format_results returned
    display,        \* the dict format_for_display returned
    error,          \* the exception that left search_and_answer, if any
    qpc,            \* position of the request: "idle", "searched", "answered",
                    \* "returned", "formatted", "displayed", "raised"
    search_io,      \* what the embedding provider and the store answered
                    \* during search, None before
    \* ---- SearchEngine.index_document / bulk_index_documents, per caller ----
    calls,          \* caller -> its call in progress: position, arguments,
                    \* locals, upserts issued, return value or exception
    \* ---- DocumentProcessor.process_uploaded_file ----
    uploaded_file,  \* the uploaded file: its name and whether its parts can be read
    temp_dir,       \* local temp_dir (a directory number), 0 while unbound
    fs_dirs,        \* temporary directories that exist
    fs_files,       \* temporary directories whose staged file exists
    extracted,      \* the text returned, or the exception raised
    fpc             \* position in process_uploaded_file: "idle", "made",
                    \* "written", "extracted", "returned", "raised"

chunkVars == <<text, chunk_size, overlap, start, chunks, cpc>>

qaVars == <<collection, query, limit, search_results, prompt, llm_calls,
            completion, answer_data, results, formatted, display, error, qpc,
            search_io>>

requestVars == <<query, limit, search_results, prompt, llm_calls, completion,
                 answer_data, results, formatted, display, error>>

fileVars == <<uploaded_file, temp_dir, fs_dirs, fs_files, extracted, fpc>>

vars == <<chunkVars, qaVars, calls, fileVars>>

(***************************************************************************)
(* Bounds                                                                  *)
(***************************************************************************)
MaxLen == 6        \* longest text
MaxChunkSize == 5  \* largest chunk_size
MaxChunks == 7     \* chunks recorded per call (the loop itself is not cut)
MaxDocs == 3       \* largest point id, so at most MaxDocs points in the collection
MaxLimit == 4      \* largest limit of a search

(***************************************************************************)
(* Python string primitives                                                *)
(***************************************************************************)
NL == "\n"
Chars == {"a", NL, ".", " "}
Texts == UNION {[1..n -> Chars] : n \in 0..MaxLen}

Min(a, b) == IF a <= b THEN a ELSE b
Max(a, b) == IF a >= b THEN a ELSE b

\* A slice index as CPython adjusts it: negative indices count from the end,
\* and the result is clamped to 0..len.
PyIndex(i, len) ==
    IF i < 0 THEN Max(i + len, 0) ELSE Min(i, len)

\* t[s:e]
PySlice(t, s, e) ==
    SubSeq(t, PyIndex(s, Len(t)) + 1, PyIndex(e, Len(t)))

\* The offsets t[s:e] actually takes from t.
PySliceRange(t, s, e) ==
    PyIndex(s, Len(t)) .. (PyIndex(e, Len(t)) - 1)

\* t.rfind(sub, s, e): highest i with t[i:i+len(sub)] = sub inside t[s:e], or -1
RFind(t, sub, s, e) ==
    LET lo == PyIndex(s, Len(t))
        hi == PyIndex(e, Len(t))
        hits == {i \in lo..(hi - Len(sub)) : SubSeq(t, i + 1, i + Len(sub)) = sub}
    IN IF hits = {} THEN -1
       ELSE CHOOSE i \in hits : \A j \in hits : j <= i

(***************************************************************************)
(* Values of the question-answering pipeline                               *)
(***************************************************************************)
\* Python's None, and a local that is not bound yet.
None == [none |-> TRUE]
IsNone(v) == "none" \in DOMAIN v

\* An exception, as the value of the call that raised it.
Raised(message) == [raised |-> message]
IsRaised(v) == "raised" \in DOMAIN v

Ids == 1..MaxDocs
Queries == {"", "warranty period"}

\* Similarity scores the store reports, in hundredths (cosine: -1.00 .. 1.00).
Scores == {-100, 60, 100}

\* Payloads a point can carry: the metadata dicts of the callers, or None.
Metadata == { [question |-> "What is the warranty?", answer |-> "2 years."],
              [source |-> "rfp.pdf"],
              None }

\* What the completion model answers, and what the providers raise.
Completions == {"The warranty is 2 years."}
ProviderErrors == {"Rate limit exceeded"}

\* dict.get(key, default)
Get(d, key, default) == IF key \in DOMAIN d THEN d[key] ELSE default

\* int(x) of the quotient num / den: truncation toward zero
IntTrunc(num, den) ==
    IF num >= 0 THEN num \div den ELSE -((-num) \div den)

\* No request in progress: the locals of the pipeline are unbound.
RequestIdle ==
    /\ query = ""
    /\ limit = 1
    /\ search_results = <<>>
    /\ prompt = None
    /\ llm_calls = 0
    /\ completion = None
    /\ answer_data = None
    /\ results = None
    /\ formatted = None
    /\ display = None
    /\ error = None
    /\ qpc = "idle"
    /\ search_io = None

\* Callers of index_document and bulk_index_documents.
Callers == 1..2

\* A caller that is not in a call.
NoCall == [pc |-> "idle"]

\* No file is being processed and no temporary directory exists.
FileIdle ==
    /\ uploaded_file = None
    /\ temp_dir = 0
    /\ fs_dirs = {}
    /\ fs_files = {}
    /\ extracted = None
    /\ fpc = "idle"

\* The pipeline before its first call, on an empty collection.
QaIdle ==
    /\ collection = <<>>
    /\ calls = [p \in Callers |-> NoCall]
    /\ RequestIdle

(***************************************************************************)
(* DocumentProcessor.chunk_text                                            *)
(***************************************************************************)
\* end = min(start + chunk_size, len(text)), before the break-point search
CandidateEnd(t, st, cs) == Min(st + cs, Len(t))

\* paragraph_break > start + 0.5 * chunk_size, without fractions
PastMidpoint(pos, st, cs) == 2 * pos > 2 * st + cs

\* The value of end when the chunk is appended.
ChunkEnd(t, st, cs) ==
    LET cand == CandidateEnd(t, st, cs)
        paragraph_break == RFind(t, <<NL, NL>>, st, cand)
        sentence_break == RFind(t, <<".", " ">>, st, cand)
    IN IF cand < Len(t)
       THEN IF paragraph_break # -1 /\ PastMidpoint(paragraph_break, st, cs)
            THEN paragraph_break
            ELSE IF sentence_break # -1 /\ PastMidpoint(sentence_break, st, cs)
                 THEN sentence_break + 1
                 ELSE cand
       ELSE cand

\* start = end - overlap
NextStart(e, ov) == e - ov

\* chunk_text is not running.
ChunkIdle ==
    /\ text = <<>>
    /\ chunk_size = 1
    /\ overlap = 0
    /\ start = 0
    /\ chunks = <<>>
    /\ cpc = "idle"

ChunkInit ==
    /\ text \in Texts
    /\ chunk_size \in 1..MaxChunkSize
    /\ overlap \in 0..(chunk_size - 1)
    /\ start = 0
    /\ chunks = <<>>
    /\ cpc = "scan"
    /\ QaIdle
    /\ FileIdle

\* One iteration of the while loop.
ChunkStep ==
    /\ cpc = "scan"
    /\ start < Len(text)
    /\ LET end == ChunkEnd(text, start, chunk_size)
       IN /\ chunks' = IF Len(chunks) < MaxChunks
                       THEN Append(chunks, [start |-> start, end |-> end,
                                            text |-> PySlice(text, start, end)])
                       ELSE chunks
          /\ start' = NextStart(end, overlap)
    /\ UNCHANGED <<text, chunk_size, overlap, cpc>>
    /\ UNCHANGED <<qaVars, calls, fileVars>>

\* The loop condition fails: return chunks.
ChunkReturn ==
    /\ cpc = "scan"
    /\ ~(start < Len(text))
    /\ cpc' = "done"
    /\ UNCHANGED <<text, chunk_size, overlap, start, chunks>>
    /\ UNCHANGED <<qaVars, calls, fileVars>>

ChunkNext == ChunkStep \/ ChunkReturn

ChunkSpec == ChunkInit /\ [][ChunkNext]_vars

\* The loop is sequential code: it keeps running while it can.
FairChunkSpec == ChunkSpec /\ WF_vars(ChunkNext)

(***************************************************************************)
(* SearchEngine: the vector store and the providers                        *)
(***************************************************************************)
\* An upsert that stores the point under the lowest unused id when its id
\* is taken.
UpsertInsert(coll, id, payload) ==
    LET free == CHOOSE i \in 0..(Cardinality(DOMAIN coll) + MaxDocs + 1) :
                   /\ i \notin DOMAIN coll
                   /\ \A j \in 0..(i - 1) : j \in DOMAIN coll
        at == IF id \in DOMAIN coll THEN free ELSE id
    IN [i \in (DOMAIN coll) \cup {at} |-> IF i = at THEN payload ELSE coll[i]]

\* qdrant_client.upsert of one point
Upsert(coll, id, payload) ==
    [i \in (DOMAIN coll) \cup {id} |-> IF i = id THEN payload ELSE coll[i]]

\* collection_info.points_count
PointsCount(coll) == Cardinality(DOMAIN coll)

\* An id assignment whose fallback is an id no record can have yet.
AssignIdUnused(coll, doc_id, countOk) ==
    IF ~IsNone(doc_id) THEN doc_id.id
    ELSE IF countOk THEN PointsCount(coll) + 1
    ELSE 0 - 1

\* The id index_document uses: the caller's, or points_count + 1, or 1 when
\* get_collection raises.
AssignId(coll, doc_id, countOk) ==
    IF ~IsNone(doc_id) THEN doc_id.id
    ELSE IF countOk THEN PointsCount(coll) + 1
    ELSE 1

DocIdArgs == {None} \cup {[id |-> i] : i \in Ids}

\* index_document(text, metadata, doc_id), called between requests.
IndexDocument ==
    /\ qpc = "idle"
    /\ \E metadata \in Metadata, doc_id \in DocIdArgs,
          embedOk \in BOOLEAN, countOk \in BOOLEAN, upsertOk \in BOOLEAN :
         LET id == AssignId(collection, doc_id, countOk)
         IN /\ id <= MaxDocs
            /\ collection' = IF embedOk /\ upsertOk
                             THEN Upsert(collection, id, metadata)
                             ELSE collection
    /\ UNCHANGED requestVars
    /\ UNCHANGED <<qpc, search_io>>
    /\ UNCHANGED <<chunkVars, calls, fileVars>>

\* create_collection(): recreate_collection drops the contents.
CreateCollection ==
    /\ qpc = "idle"
    /\ \E ok \in BOOLEAN :
         collection' = IF ok THEN <<>> ELSE collection
    /\ UNCHANGED requestVars
    /\ UNCHANGED <<qpc, search_io>>
    /\ UNCHANGED <<chunkVars, calls, fileVars>>

\* Injective sequences of length k over ids: the rankings of k distinct points.
Rankings(ids, k) ==
    {r \in [1..k -> ids] : \A i, j \in 1..k : i # j => r[i] # r[j]}

\* Score lists of length k in descending order.
Descending(k) ==
    {sc \in [1..k -> Scores] : \A i \in 1..(k - 1) : sc[i] >= sc[i + 1]}

\* qdrant_client.search(query_vector, limit): the top `limit` points by
\* similarity, as ScoredPoints.
StoreSearch(coll, lim) ==
    LET k == Min(lim, PointsCount(coll))
    IN { [i \in 1..k |-> [id |-> r[i], version |-> 0, score |-> sc[i],
                          payload |-> coll[r[i]], vector |-> None]] :
           r \in Rankings(DOMAIN coll, k), sc \in Descending(k) }

\* The dict search builds for one ScoredPoint.
ToHit(result) ==
    [id |-> result.id, score |-> result.score, payload |-> result.payload]

\* The hits in ascending id order instead of the store's order.
ToHitsById(scored) ==
    [i \in 1..Len(scored) |->
        ToHit(CHOOSE r \in {scored[j] : j \in 1..Len(scored)} :
                 Cardinality({j \in 1..Len(scored) : scored[j].id < r.id}) = i - 1)]

\* The list search returns for the store's answer.
ToHits(scored) == [i \in 1..Len(scored) |-> ToHit(scored[i])]

(***************************************************************************)
(* SearchEngine.search_and_answer                                          *)
(***************************************************************************)
\* get_text_embedding(query) answered.
Embedded == [vector |-> "embedding"]

\* search(query, limit) with a handler that returns no hits.
SearchSwallows(embedded, answered) ==
    IF IsRaised(embedded) \/ IsRaised(answered) THEN [results |-> <<>>]
    ELSE [results |-> ToHits(answered.points)]

\* search(query, limit) with the embedding step giving `embedded` and the
\* store query giving `answered`: the hits, or the exception of the step
\* that failed, which the handler logs and re-raises.
SearchOf(embedded, answered) ==
    IF IsRaised(embedded) THEN embedded
    ELSE IF IsRaised(answered) THEN answered
    ELSE [results |-> ToHits(answered.points)]

\* search_results = self.search(query, limit) in search_and_answer, which
\* has no handler: an exception of search leaves search_and_answer.
SearchStep(q, lim, embedded, answered) ==
    LET found == SearchOf(embedded, answered)
    IN /\ query' = q
       /\ limit' = lim
       /\ search_io' = [embedded |-> embedded, answered |-> answered]
       /\ IF IsRaised(found)
          THEN /\ error' = [message |-> found.raised]
               /\ qpc' = "raised"
               /\ UNCHANGED search_results
          ELSE /\ search_results' = found.results
               /\ qpc' = "searched"
               /\ UNCHANGED error
       /\ UNCHANGED <<collection, prompt, llm_calls, completion, answer_data,
                      results, formatted, display>>
       /\ UNCHANGED <<chunkVars, calls, fileVars>>

\* search(query, limit) returns: the embedding and the store query succeed.
SearchOk ==
    /\ qpc = "idle"
    /\ \E q \in Queries, lim \in 1..MaxLimit :
         \E answer \in StoreSearch(collection, lim) :
            SearchStep(q, lim, Embedded, [points |-> answer])

\* search(query, limit) raises: get_text_embedding failed, and the store is
\* not asked, or qdrant_client.search failed.
SearchRaise ==
    /\ qpc = "idle"
    /\ \E q \in Queries, lim \in 1..MaxLimit, e \in ProviderErrors :
         \/ SearchStep(q, lim, Raised(e), None)
         \/ SearchStep(q, lim, Embedded, Raised(e))

\* f"{score:.2f}" of a score in hundredths
Fmt2(score) ==
    LET a == IF score < 0 THEN -score ELSE score
    IN (IF score < 0 THEN "-" ELSE "") \o ToString(a \div 100) \o "."
       \o ToString((a % 100) \div 10) \o ToString(a % 10)

\* The block of the context for the i-th hit.
ContextBlock(i, hit) ==
    "Source " \o ToString(i) \o ":\n"
    \o (IF "question" \in DOMAIN hit.payload
        THEN "Question: " \o hit.payload.question \o "\n" ELSE "")
    \o (IF "answer" \in DOMAIN hit.payload
        THEN "Answer: " \o hit.payload.answer \o "\n" ELSE "")
    \o "Relevance Score: " \o Fmt2(hit.score) \o "\n\n"

RECURSIVE Context(_, _)
\* The context built from the first n hits.
Context(hits, n) ==
    IF n = 0 THEN "" ELSE Context(hits, n - 1) \o ContextBlock(n, hits[n])

\* `"question" in result["payload"]` raises TypeError on a None payload.
ContextRaises(hits) == \E i \in 1..Len(hits) : IsNone(hits[i].payload)

\* top_relevance, in hundredths
TopRelevance(hits) == IF hits # <<>> THEN hits[1].score ELSE 0

\* source_diversity = min(len(search_results) / 3, 1.0), in thirds
SourceDiversity(hits) == Min(Len(hits), 3)

\* confidence = top_relevance * 0.7 + source_diversity * 0.3, in thousandths
Confidence(hits) == 7 * TopRelevance(hits) + 100 * SourceDiversity(hits)

NoInformation ==
    [generated_answer |-> "No relevant information found.", confidence |-> 0]

\* The dict of the except branch of generate_answer_from_results.
ErrorAnswer(message) ==
    [generated_answer |-> "Error generating answer: " \o message, confidence |-> 0]

\* (mutant) the completion call is made before the empty-list check.
CallsCompletionBeforeCheck(hits) == ~ContextRaises(hits)

\* Whether generate_answer_from_results reaches chat.completions.create.
CallsCompletion(hits) == hits # <<>> /\ ~ContextRaises(hits)

\* The try block of generate_answer_from_results; outcome is what the
\* completion call does when it is reached: [content |-> text] or Raised(..).
GenerateAnswerBody(hits, outcome) ==
    IF hits = <<>> THEN NoInformation
    ELSE IF ContextRaises(hits)
         THEN Raised("argument of type 'NoneType' is not iterable")
    ELSE IF IsRaised(outcome) THEN outcome
    ELSE [generated_answer |-> outcome.content, confidence |-> Confidence(hits)]

\* (mutant) generate_answer_from_results without its except branch.
GenerateAnswerNoExcept(hits, outcome) == GenerateAnswerBody(hits, outcome)

\* generate_answer_from_results: the try block, and the except branch that
\* turns any exception into an answer.
GenerateAnswerOf(hits, outcome) ==
    LET r == GenerateAnswerBody(hits, outcome)
    IN IF IsRaised(r) THEN ErrorAnswer(r.raised) ELSE r

CompletionOutcomes ==
    {[content |-> c] : c \in Completions} \cup {Raised(e) : e \in ProviderErrors}

\* answer_data = self.generate_answer_from_results(query, search_results);
\* an exception that leaves the call leaves search_and_answer too.
GenerateAnswer ==
    /\ qpc = "searched"
    /\ \E outcome \in CompletionOutcomes :
         LET r == GenerateAnswerOf(search_results, outcome)
         IN /\ IF CallsCompletion(search_results)
               THEN /\ llm_calls' = llm_calls + 1
                    /\ completion' = outcome
                    /\ prompt' = [question |-> query,
                                  context |-> Context(search_results,
                                                      Len(search_results))]
               ELSE UNCHANGED <<llm_calls, completion, prompt>>
            /\ IF IsRaised(r)
               THEN /\ error' = [message |-> r.raised]
                    /\ qpc' = "raised"
                    /\ UNCHANGED answer_data
               ELSE /\ answer_data' = r
                    /\ qpc' = "answered"
                    /\ UNCHANGED error
    /\ UNCHANGED <<collection, search_io, query, limit, search_results,
                   results, formatted, display>>
    /\ UNCHANGED <<chunkVars, calls, fileVars>>

\* The dict search_and_answer returns.
Combine(q, hits, ad) ==
    [query |-> q, search_results |-> hits,
     generated_answer |-> ad.generated_answer, confidence |-> ad.confidence]

SearchAndAnswerReturn ==
    /\ qpc = "answered"
    /\ results' = Combine(query, search_results, answer_data)
    /\ qpc' = "returned"
    /\ UNCHANGED <<collection, search_io, query, limit, search_results,
                   prompt, llm_calls, completion, answer_data, formatted, display,
                   error>>
    /\ UNCHANGED <<chunkVars, calls, fileVars>>

(***************************************************************************)
(* AnswerFormatter                                                         *)
(***************************************************************************)
\* The source summary of one hit.
ToSource(hit) ==
    [text |-> Get(hit.payload, "answer", ""),
     score |-> hit.score,
     metadata |-> [question |-> Get(hit.payload, "question", ""),
                   answer_type |-> Get(hit.payload, "answer_type", ""),
                   date |-> Get(hit.payload, "date", "")]]

\* str(e) of the exception building the source of one hit raises, "" when
\* it raises none: result["payload"] is evaluated first (KeyError), then
\* .get on it (AttributeError on None), then result["score"] (KeyError).
HitError(hit) ==
    IF "payload" \notin DOMAIN hit THEN "'payload'"
    ELSE IF IsNone(hit.payload) THEN "'NoneType' object has no attribute 'get'"
    ELSE IF "score" \notin DOMAIN hit THEN "'score'"
    ELSE ""

\* The loop over the hits raises at some hit.
SourcesRaise(hits) == \E i \in 1..Len(hits) : HitError(hits[i]) # ""

\* The message of the first hit at which it raises.
SourcesError(hits) ==
    HitError(hits[CHOOSE i \in 1..Len(hits) :
                     /\ HitError(hits[i]) # ""
                     /\ \A j \in 1..(i - 1) : HitError(hits[j]) = ""])

\* markdown.markdown(generated_answer) of a one-paragraph answer
Html(answer) == IF answer = "" THEN "" ELSE "<p>" \o answer \o "</p>"

\* The dict of the except branch of format_results.
FormatError(message) ==
    [answer |-> "Error formatting results: " \o message,
     sources |-> <<>>, confidence |-> 0]

\* The try block of format_results(results, query).
FormatResultsBody(res) ==
    LET hits == Get(res, "search_results", <<>>)
        generated_answer == Get(res, "generated_answer", "")
        confidence == Get(res, "confidence", 0)
    IN IF hits = <<>> /\ generated_answer = ""
       THEN [answer |-> "No relevant information found for this query.",
             sources |-> <<>>, confidence |-> 0]
       ELSE IF SourcesRaise(hits)
            THEN Raised(SourcesError(hits))
       ELSE [answer |-> generated_answer,
             html_answer |-> Html(generated_answer),
             sources |-> [i \in 1..Len(hits) |-> ToSource(hits[i])],
             confidence |-> confidence]

\* (mutant) format_results without its except branch.
FormatResultsNoExcept(res) == FormatResultsBody(res)

\* format_results: the try block, and the except branch that turns any
\* exception into a degraded answer.
FormatResultsOf(res) ==
    LET r == FormatResultsBody(res)
    IN IF IsRaised(r) THEN FormatError(r.raised) ELSE r

\* formatted_results = answer_formatter.format_results(results, query)
FormatResults ==
    /\ qpc = "returned"
    /\ LET r == FormatResultsOf(results)
       IN IF IsRaised(r)
          THEN /\ error' = [message |-> r.raised]
               /\ qpc' = "raised"
               /\ UNCHANGED formatted
          ELSE /\ formatted' = r
               /\ qpc' = "formatted"
               /\ UNCHANGED error
    /\ UNCHANGED <<collection, search_io, query, limit, search_results,
                   prompt, llm_calls, completion, answer_data, results, display>>
    /\ UNCHANGED <<chunkVars, calls, fileVars>>

\* (mutant) the thresholds compared with > instead of >=.
AddConfidenceIndicatorsStrict(confidence) ==
    IF confidence > 800 THEN "(green) High confidence"
    ELSE IF confidence > 500 THEN "(yellow) Medium confidence"
    ELSE "(red) Low confidence"

\* add_confidence_indicators(confidence), confidence in thousandths.  The
\* markers U+1F7E2, U+1F7E1 and U+1F534 are written (green), (yellow), (red).
AddConfidenceIndicators(confidence) ==
    IF confidence >= 800 THEN "(green) High confidence"
    ELSE IF confidence >= 500 THEN "(yellow) Medium confidence"
    ELSE "(red) Low confidence"

\* round(x) of the quotient num / den, num >= 0: nearest integer, halves to even
RoundNearest(num, den) ==
    LET q == num \div den
        r == num % den
    IN IF 2 * r < den THEN q
       ELSE IF 2 * r > den THEN q + 1
       ELSE IF q % 2 = 0 THEN q ELSE q + 1

\* (mutant) the percentage rounded to nearest instead of truncated.
ConfidencePctRounded(confidence) ==
    ToString(RoundNearest(confidence * 100, 1000)) \o "%"

\* f"{int(formatted_results['confidence'] * 100)}%", confidence in thousandths
ConfidencePct(confidence) ==
    ToString(IntTrunc(confidence * 100, 1000)) \o "%"

\* The try block of format_for_display(formatted_results).
FormatForDisplayBody(fr) ==
    IF "confidence" \notin DOMAIN fr
    THEN Raised("'confidence'")
    ELSE [k \in (DOMAIN fr) \cup {"confidence_indicator", "confidence_pct"} |->
            IF k = "confidence_indicator" THEN AddConfidenceIndicators(fr.confidence)
            ELSE IF k = "confidence_pct" THEN ConfidencePct(fr.confidence)
            ELSE fr[k]]

\* format_for_display: the try block, and the except branch that hands the
\* argument back.
FormatForDisplayOf(fr) ==
    LET r == FormatForDisplayBody(fr)
    IN IF IsRaised(r) THEN fr ELSE r

\* display_data = answer_formatter.format_for_display(formatted_results)
FormatForDisplay ==
    /\ qpc = "formatted"
    /\ LET r == FormatForDisplayOf(formatted)
       IN IF IsRaised(r)
          THEN /\ error' = [message |-> r.raised]
               /\ qpc' = "raised"
               /\ UNCHANGED display
          ELSE /\ display' = r
               /\ qpc' = "displayed"
               /\ UNCHANGED error
    /\ UNCHANGED <<collection, search_io, query, limit, search_results,
                   prompt, llm_calls, completion, answer_data, results, formatted>>
    /\ UNCHANGED <<chunkVars, calls, fileVars>>

\* The request is over (shown, or reported as an error): the next one starts
\* from unbound locals, on the same collection.
NewRequest ==
    /\ qpc \in {"displayed", "raised"}
    /\ query' = ""
    /\ limit' = 1
    /\ search_results' = <<>>
    /\ prompt' = None
    /\ llm_calls' = 0
    /\ completion' = None
    /\ answer_data' = None
    /\ results' = None
    /\ formatted' = None
    /\ display' = None
    /\ error' = None
    /\ qpc' = "idle"
    /\ search_io' = None
    /\ UNCHANGED collection
    /\ UNCHANGED <<chunkVars, calls, fileVars>>

QaInit == ChunkIdle /\ QaIdle /\ FileIdle

QaNext ==
    \/ CreateCollection
    \/ IndexDocument
    \/ SearchOk
    \/ SearchRaise
    \/ GenerateAnswer
    \/ SearchAndAnswerReturn
    \/ FormatResults
    \/ FormatForDisplay
    \/ NewRequest

QaSpec == QaInit /\ [][QaNext]_vars

(***************************************************************************)
(* SearchEngine.index_document and bulk_index_documents, step by step      *)
(***************************************************************************)
\* return doc_id
Returned(value) == [returned |-> value]

\* A point that carries the id but not the metadata.
PointStructBare(doc_id, metadata) == [id |-> doc_id, payload |-> None]

\* PointStruct(id=doc_id, vector=embedding, payload=metadata); the vector
\* plays no part in what is stored under which id.
PointStruct(doc_id, metadata) == [id |-> doc_id, payload |-> metadata]

\* qdrant_client.upsert(points=points): each point replaces the record of
\* its id, in list order.
RECURSIVE UpsertPoints(_, _)
UpsertPoints(coll, points) ==
    IF points = <<>> THEN coll
    ELSE UpsertPoints(Upsert(coll, Head(points).id, Head(points).payload),
                      Tail(points))

\* index_document(text, metadata, doc_id) is entered with a metadata of
\* `metadatas` and get_text_embedding(text) answers or raises; nothing shared
\* is touched.
IndexCall(p, metadatas) ==
    /\ calls[p].pc = "idle"
    /\ \E metadata \in metadatas, doc_id \in DocIdArgs, embedOk \in BOOLEAN :
         calls' = [calls EXCEPT ![p] =
            [op       |-> "index_document",
             metadata |-> metadata,
             arg      |-> doc_id,
             doc_id   |-> IF IsNone(doc_id) THEN 0 ELSE doc_id.id,
             embedded |-> embedOk,
             counted  |-> FALSE,
             count    |-> 0,
             upserts  |-> 0,
             stored   |-> 0,
             result   |-> IF embedOk THEN None ELSE Raised("embedding failed"),
             pc       |-> IF ~embedOk THEN "raised"
                          ELSE IF IsNone(doc_id) THEN "count" ELSE "upsert"]]
    /\ UNCHANGED <<chunkVars, qaVars, fileVars>>

\* if doc_id is None: doc_id = points_count + 1, or 1 when get_collection
\* raises (bare except).
Count(p) ==
    /\ calls[p].pc = "count"
    /\ \E countOk \in BOOLEAN :
         /\ AssignId(collection, calls[p].arg, countOk) <= MaxDocs
         /\ calls' = [calls EXCEPT ![p].doc_id =
                          AssignId(collection, calls[p].arg, countOk),
                      ![p].counted = countOk,
                      ![p].count = IF countOk THEN PointsCount(collection) ELSE 0,
                      ![p].pc = "upsert"]
    /\ UNCHANGED <<chunkVars, qaVars, fileVars>>

\* index_document that reports a failed upsert as success.
AfterUpsertSwallows(doc_id, upsertOk) == Returned(doc_id)

\* How index_document ends after the upsert: return doc_id, or the
\* exception of the upsert, which the handler logs and re-raises.
AfterUpsert(doc_id, upsertOk) ==
    IF upsertOk THEN Returned(doc_id) ELSE Raised("upsert failed")

\* qdrant_client.upsert(points=[point]), then return doc_id.
UpsertPoint(p) ==
    /\ calls[p].pc = "upsert"
    /\ \E upsertOk \in BOOLEAN :
         LET ending == AfterUpsert(calls[p].doc_id, upsertOk)
         IN /\ collection' =
                 IF upsertOk
                 THEN UpsertPoints(collection,
                          <<PointStruct(calls[p].doc_id, calls[p].metadata)>>)
                 ELSE collection
            /\ calls' = [calls EXCEPT
                           ![p].upserts = @ + 1,
                           ![p].stored = IF upsertOk THEN @ + 1 ELSE @,
                           ![p].result = ending,
                           ![p].pc = IF IsRaised(ending) THEN "raised"
                                     ELSE "returned"]
    /\ UNCHANGED <<requestVars, qpc, search_io>>
    /\ UNCHANGED <<chunkVars, fileVars>>

\* The documents process_json_data builds from n items: ids from enumerate,
\* metadata with the item's question and answer.
Documents(n) ==
    [i \in 1..n |-> [id |-> i - 1,
                     metadata |-> [question |-> "What is the warranty?",
                                   answer |-> "2 years."]]]

\* points = [PointStruct(id=doc['id'], ..., payload=doc['metadata']) ...]
Points(documents) ==
    [i \in 1..Len(documents) |->
        PointStruct(documents[i].id, documents[i].metadata)]

\* How bulk_index_documents ends after its upsert: it returns None, or the
\* exception of the upsert, which the handler logs and re-raises.
AfterBulkUpsert(upsertOk) ==
    IF upsertOk THEN Returned(None) ELSE Raised("upsert failed")

\* bulk_index_documents(documents): one upsert of all the points.
BulkIndexDocuments(p) ==
    /\ calls[p].pc = "idle"
    /\ \E n \in 1..MaxDocs, upsertOk \in BOOLEAN :
         LET ending == AfterBulkUpsert(upsertOk)
         IN /\ collection' =
                 IF upsertOk
                 THEN UpsertPoints(collection, Points(Documents(n)))
                 ELSE collection
            /\ calls' = [calls EXCEPT ![p] =
                 [op      |-> "bulk_index_documents",
                  n       |-> n,
                  upserts |-> 1,
                  stored  |-> IF upsertOk THEN 1 ELSE 0,
                  result  |-> ending,
                  pc      |-> IF IsRaised(ending) THEN "raised" ELSE "returned"]]
    /\ UNCHANGED <<requestVars, qpc, search_io>>
    /\ UNCHANGED <<chunkVars, fileVars>>

\* The caller has the return value or the exception.
CallDone(p) ==
    /\ calls[p].pc \in {"returned", "raised"}
    /\ calls' = [calls EXCEPT ![p] = NoCall]
    /\ UNCHANGED <<chunkVars, qaVars, fileVars>>

\* Caller p is between the statements of no call.
Resting(p) == calls[p].pc \in {"idle", "returned", "raised"}

\* One caller, one call at a time: create_collection, index_document and
\* bulk_index_documents in any order.
SeqIndexInit == ChunkIdle /\ QaIdle /\ FileIdle

SeqIndexNext ==
    \/ Resting(1) /\ CreateCollection
    \/ IndexCall(1, Metadata)
    \/ Count(1)
    \/ UpsertPoint(1)
    \/ BulkIndexDocuments(1)
    \/ CallDone(1)

SeqIndexSpec == SeqIndexInit /\ [][SeqIndexNext]_vars

\* The document a concurrent caller indexes: one each, so that their
\* records can be told apart.
OwnMetadata(p) ==
    IF p = 1 THEN [question |-> "What is the warranty?", answer |-> "2 years."]
    ELSE [source |-> "rfp.pdf"]

\* Several callers whose calls interleave at the store operations.
IndexInit == ChunkIdle /\ QaIdle /\ FileIdle

IndexNext ==
    \/ CreateCollection
    \/ \E p \in Callers :
         \/ IndexCall(p, {OwnMetadata(p)})
         \/ Count(p)
         \/ UpsertPoint(p)
         \/ BulkIndexDocuments(p)
         \/ CallDone(p)

IndexSpec == IndexInit /\ [][IndexNext]_vars

(***************************************************************************)
(* index_document followed by search, one caller                           *)
(***************************************************************************)
\* search(query, limit) was called on its own and the caller has the hits.
SearchDone ==
    /\ qpc = "searched"
    /\ query' = ""
    /\ limit' = 1
    /\ search_results' = <<>>
    /\ search_io' = None
    /\ qpc' = "idle"
    /\ UNCHANGED <<collection, prompt, llm_calls, completion, answer_data,
                   results, formatted, display, error>>
    /\ UNCHANGED <<chunkVars, calls, fileVars>>

\* Limits of the searches a caller makes to look up what it just indexed.
MaxTopLimit == 2

\* search(query, limit) returns, the limit being a small one.
SearchTop ==
    /\ qpc = "idle"
    /\ \E q \in Queries, lim \in 1..MaxTopLimit :
         \E answer \in StoreSearch(collection, lim) :
            SearchStep(q, lim, Embedded, [points |-> answer])

RoundTripInit == ChunkIdle /\ QaIdle /\ FileIdle

\* The caller is in one call at a time: it indexes, and searches while it
\* holds the id index_document returned.
RoundTripNext ==
    \/ Resting(1) /\ CreateCollection
    \/ qpc = "idle" /\ IndexCall(1, Metadata)
    \/ Count(1)
    \/ UpsertPoint(1)
    \/ qpc = "idle" /\ CallDone(1)
    \/ calls[1].pc = "returned" /\ SearchTop
    \/ SearchDone

RoundTripSpec == RoundTripInit /\ [][RoundTripNext]_vars

(***************************************************************************)
(* DocumentProcessor.process_uploaded_file                                 *)
(***************************************************************************)
\* Temporary directories mkdtemp can hand out, by number.
MaxUploads == 3

TempDirs == 1..MaxUploads

\* Path(file_path).suffix of the uploaded names.
Suffixes == {".pdf", ".PDF", ".docx", ".txt", ".xlsx", ".xls", ".csv"}

\* str.lower() on those suffixes
Lower(suffix) == IF suffix = ".PDF" THEN ".pdf" ELSE suffix

\* The suffixes extract_text has an extractor for.
Supported == {".pdf", ".docx", ".txt", ".xlsx", ".xls"}

\* An uploaded file: the suffix of its name and whether its extractor can
\* parse its bytes.
UploadedFiles == [suffix : Suffixes, parses : BOOLEAN]

\* extract_text(file_path): the extractor's text, the extractor's error, or
\* ValueError for a suffix without extractor.
ExtractText(file) ==
    LET file_ext == Lower(file.suffix)
    IN IF file_ext \notin Supported
       THEN Raised("Unsupported file format: " \o file_ext)
       ELSE IF file.parses THEN [text |-> "extracted text"]
       ELSE Raised("Error extracting text")

\* temp_dir = tempfile.mkdtemp(): a directory that did not exist, or OSError.
MkDtemp ==
    /\ fpc = "idle"
    /\ \E file \in UploadedFiles :
         /\ uploaded_file' = file
         /\ \/ \E d \in TempDirs \ fs_dirs :
                 /\ fs_dirs' = fs_dirs \cup {d}
                 /\ temp_dir' = d
                 /\ fpc' = "made"
                 /\ UNCHANGED extracted
            \/ /\ extracted' = Raised("mkdtemp failed")
               /\ fpc' = "raised"
               /\ UNCHANGED <<fs_dirs, temp_dir>>
    /\ UNCHANGED fs_files
    /\ UNCHANGED <<chunkVars, qaVars, calls>>

\* with open(temp_path, "wb") as f: f.write(uploaded_file.getbuffer()).
\* open can fail before the file exists, write can fail after.
WriteTemp ==
    /\ fpc = "made"
    /\ \E opened \in BOOLEAN, written \in BOOLEAN :
         /\ fs_files' = IF opened THEN fs_files \cup {temp_dir} ELSE fs_files
         /\ IF opened /\ written
            THEN /\ fpc' = "written"
                 /\ UNCHANGED extracted
            ELSE /\ fpc' = "raised"
                 /\ extracted' = Raised("write failed")
    /\ UNCHANGED <<uploaded_file, temp_dir, fs_dirs>>
    /\ UNCHANGED <<chunkVars, qaVars, calls>>

\* text = self.extract_text(temp_path); an exception leaves through the
\* outer handler, which logs and re-raises.
Extract ==
    /\ fpc = "written"
    /\ extracted' = ExtractText(uploaded_file)
    /\ fpc' = IF IsRaised(ExtractText(uploaded_file)) THEN "raised" ELSE "extracted"
    /\ UNCHANGED <<uploaded_file, temp_dir, fs_dirs, fs_files>>
    /\ UNCHANGED <<chunkVars, qaVars, calls>>

\* What os.remove(temp_path); os.rmdir(temp_dir) leave behind, the bare
\* except having swallowed a failure: rmdir is not tried after a failed remove.
CleanUp(dirs, files, d, removed, rmdired) ==
    [dirs  |-> IF removed /\ rmdired THEN dirs \ {d} ELSE dirs,
     files |-> IF removed THEN files \ {d} ELSE files]

\* The clean-up block, then return text.
CleanUpAndReturn ==
    /\ fpc = "extracted"
    /\ \E removed \in BOOLEAN, rmdired \in BOOLEAN :
         LET left == CleanUp(fs_dirs, fs_files, temp_dir, removed, rmdired)
         IN /\ fs_dirs' = left.dirs
            /\ fs_files' = left.files
    /\ fpc' = "returned"
    /\ UNCHANGED <<uploaded_file, temp_dir, extracted>>
    /\ UNCHANGED <<chunkVars, qaVars, calls>>

\* The caller has the text or the exception; the next upload can start.
FileDone ==
    /\ fpc \in {"returned", "raised"}
    /\ uploaded_file' = None
    /\ temp_dir' = 0
    /\ extracted' = None
    /\ fpc' = "idle"
    /\ UNCHANGED <<fs_dirs, fs_files>>
    /\ UNCHANGED <<chunkVars, qaVars, calls>>

FileInit == ChunkIdle /\ QaIdle /\ FileIdle

FileNext == MkDtemp \/ WriteTemp \/ Extract \/ CleanUpAndReturn \/ FileDone

FileSpec == FileInit /\ [][FileNext]_vars

(***************************************************************************)
(* Properties of chunk_text                                                *)
(***************************************************************************)
\* The offsets of text that chunk c holds.
ChunkRange(c) == PySliceRange(text, c.start, c.end)

\* The offsets held by the chunks emitted so far.
Covered == UNION {ChunkRange(chunks[i]) : i \in 1..Len(chunks)}

\* Every call that returns does so with all of its chunks recorded.
ReturnIsRecorded == cpc = "done" => Len(chunks) < MaxChunks

\* C1: chunk_text terminates for every text and every valid parameter pair
\* (0 <= overlap < chunk_size): the scan reaches start >= len(text) and returns.
\* (Each iteration is a function of text, chunk_size, overlap and start alone,
\* so a run in which start takes a value again repeats for ever; once
\* MaxChunks chunks are recorded such a run no longer changes the state.)
C1_Terminates == <>(cpc = "done")

\* C2: for every text shorter than chunk_size (any valid overlap), chunk_text
\* returns exactly one chunk, and that chunk is the whole text.
C2_ShortTextOneChunk ==
    Len(text) < chunk_size =>
        /\ Len(chunks) <= 1
        /\ cpc = "done" => (Len(chunks) = 1 /\ chunks[1].text = text)

\* C3: at every point of the scan the chunks emitted so far cover
\* [0, end of the last emitted chunk) without a gap, and at return the union of
\* the chunk ranges is exactly [0, len(text)).
C3_Coverage ==
    /\ chunks # <<>> => Covered = 0..(chunks[Len(chunks)].end - 1)
    /\ cpc = "done" => Covered = 0..(Len(text) - 1)

\* C4: every pair of consecutive chunks that is followed by a further chunk (so
\* is not the last pair) shares exactly overlap characters: the next chunk
\* starts overlap characters before the end of the previous one and the shared
\* region lies inside both chunks.
C4_ExactOverlap ==
    \A i \in 1..(Len(chunks) - 2) :
        LET shared == chunks[i + 1].start .. (chunks[i].end - 1)
        IN /\ chunks[i + 1].start = chunks[i].end - overlap
           /\ Cardinality(shared) = overlap
           /\ shared \subseteq ChunkRange(chunks[i])
           /\ shared \subseteq ChunkRange(chunks[i + 1])

(***************************************************************************)
(* format_for_display on its own: any formatted result                     *)
(***************************************************************************)
\* The formatted results format_for_display is applied to: every confidence
\* from -0.600 to 1.100 in steps of 0.001.
DisplayInputs ==
    {[answer |-> a, sources |-> <<>>, confidence |-> c] :
        a \in Completions, c \in (-600)..1100}

DisplayInit ==
    /\ ChunkIdle
    /\ FileIdle
    /\ collection = <<>>
    /\ calls = [p \in Callers |-> NoCall]
    /\ search_io = None
    /\ query = ""
    /\ limit = 1
    /\ search_results = <<>>
    /\ prompt = None
    /\ llm_calls = 0
    /\ completion = None
    /\ answer_data = None
    /\ results = None
    /\ formatted \in DisplayInputs
    /\ display = None
    /\ error = None
    /\ qpc = "formatted"

DisplayNext == FormatForDisplay

DisplaySpec == DisplayInit /\ [][DisplayNext]_vars

(***************************************************************************)
(* format_results and format_for_display on malformed input                *)
(***************************************************************************)
\* Longest hit list of a malformed result.
MaxBadHits == 2

\* Hits as search builds them, and hits that lack a payload, a score or
\* both, or whose payload is None.
HitShapes ==
    {[id |-> 1, score |-> 60,
      payload |-> [question |-> "What is the warranty?", answer |-> "2 years."]],
     [id |-> 1, score |-> 60, payload |-> None],
     [id |-> 1, score |-> 60],
     [id |-> 1,
      payload |-> [question |-> "What is the warranty?", answer |-> "2 years."]],
     [id |-> 1]}

HitLists == UNION {[1..n -> HitShapes] : n \in 0..MaxBadHits}

\* The results format_results is applied to, with and without a confidence.
ResultShapes ==
    {[query |-> "warranty period", search_results |-> hits,
      generated_answer |-> a, confidence |-> c] :
        hits \in HitLists, a \in Completions, c \in {0, 700}}
    \cup {[query |-> "warranty period", search_results |-> hits,
           generated_answer |-> a] :
            hits \in HitLists, a \in Completions}

\* Formatted results without a confidence, which format_results does not
\* produce but format_for_display accepts.
FormattedShapes ==
    {[answer |-> a, sources |-> <<>>] : a \in Completions}
    \cup {[answer |-> a, html_answer |-> Html(a), sources |-> <<>>] :
            a \in Completions}

\* Either format_results is about to be applied to a result, or
\* format_for_display to a formatted result.
MalformedInit ==
    /\ ChunkIdle
    /\ FileIdle
    /\ collection = <<>>
    /\ calls = [p \in Callers |-> NoCall]
    /\ search_io = None
    /\ query = "warranty period"
    /\ limit = 1
    /\ search_results = <<>>
    /\ prompt = None
    /\ llm_calls = 0
    /\ completion = None
    /\ answer_data = None
    /\ display = None
    /\ error = None
    /\ \/ /\ results \in ResultShapes
          /\ formatted = None
          /\ qpc = "returned"
       \/ /\ results = None
          /\ formatted \in FormattedShapes
          /\ qpc = "formatted"

MalformedNext == FormatResults \/ FormatForDisplay

MalformedSpec == MalformedInit /\ [][MalformedNext]_vars

(***************************************************************************)
(* Properties of the question-answering pipeline                           *)
(***************************************************************************)
\* generate_answer_from_results has returned for the request in progress.
AfterAnswer == {"answered", "returned", "formatted", "displayed"}

\* search_and_answer has returned.
AfterReturn == {"returned", "formatted", "displayed"}

\* The completion call was made and answered.
CompletionAnswered == "content" \in DOMAIN completion

\* C5: for every non-empty hit list, whatever the scores, the confidence of
\* generate_answer_from_results lies in [0.0, 1.0]; when the completion call
\* answers it is 0.7 * top score + 0.3 * min(hit count / 3, 1.0), clipped to
\* [0.0, 1.0].
C5_ConfidenceBounds ==
    (qpc \in AfterAnswer /\ search_results # <<>>) =>
        LET blend == 7 * search_results[1].score
                     + 100 * Min(Len(search_results), 3)
        IN /\ answer_data.confidence >= 0
           /\ answer_data.confidence <= 1000
           /\ CompletionAnswered =>
                answer_data.confidence = Max(0, Min(1000, blend))

\* C6: generate_answer_from_results(query, []) returns the fixed, non-empty
\* 'no information found' answer with confidence 0.0 and makes no completion
\* call, for every query.
C6_EmptyHits ==
    (qpc \in AfterAnswer /\ search_results = <<>>) =>
        /\ answer_data.generated_answer = "No relevant information found."
        /\ answer_data.generated_answer # ""
        /\ answer_data.confidence = 0
        /\ llm_calls = 0
        /\ completion = None
        /\ prompt = None

C6_Witness ==
    /\ qpc = "answered"
    /\ search_results = <<>>
    /\ query = "warranty period"
    /\ answer_data.generated_answer = "No relevant information found."
    /\ llm_calls = 0

\* C7: if the completion call fails on a non-empty hit list,
\* generate_answer_from_results does not raise: it returns an answer text
\* that describes the error, with confidence 0.0, and search_and_answer
\* returns the query, the retrieved hits, that answer and confidence 0.0.
C7_CompletionFailureIsolated ==
    IsRaised(completion) =>
        /\ search_results # <<>>
        /\ qpc \in AfterAnswer
        /\ error = None
        /\ answer_data.generated_answer
             = "Error generating answer: " \o completion.raised
        /\ answer_data.confidence = 0
        /\ qpc \in AfterReturn =>
             results = [query |-> query,
                        search_results |-> search_results,
                        generated_answer |-> answer_data.generated_answer,
                        confidence |-> 0]

C7_Witness ==
    /\ qpc = "returned"
    /\ IsRaised(completion)
    /\ Len(search_results) = 2
    /\ results.generated_answer = "Error generating answer: Rate limit exceeded"
    /\ results.confidence = 0

\* C8 (as claimed): the round trip format_results(search_and_answer(query,
\* limit)) never raises, for any query string and any limit >= 1.
C8_NeverRaises == qpc # "raised"

\* C8 (amended): the round trip raises only when search itself fails (the
\* query embedding or the store query), before any answer is generated.  When
\* search returns, for any query (the empty string too) and any limit >= 1 (a
\* limit above the number of points returns fewer hits), neither
\* generate_answer_from_results nor format_results raises, and format_results
\* returns a dict with an answer, sources and a confidence.
C8_RaisesOnlyInSearch ==
    /\ qpc = "raised" =>
         /\ search_results = <<>>
         /\ llm_calls = 0
         /\ answer_data = None
         /\ results = None
         /\ formatted = None
    /\ qpc \in AfterAnswer \cup {"searched"} =>
         /\ error = None
         /\ Len(search_results) = Min(limit, PointsCount(collection))
    /\ qpc \in {"formatted", "displayed"} =>
         {"answer", "sources", "confidence"} \subseteq DOMAIN formatted

C8_Witness ==
    /\ qpc = "formatted"
    /\ query = ""
    /\ limit > PointsCount(collection)
    /\ search_results # <<>>
    /\ Len(search_results) < limit
    /\ \E i \in 1..Len(search_results) : IsNone(search_results[i].payload)
    /\ formatted.sources = <<>>

\* C9: add_confidence_indicators maps every confidence c to exactly one
\* category: high when c >= 0.8, medium when 0.5 <= c < 0.8, low when c < 0.5;
\* 0.8 and 0.5 themselves fall in the higher band.
C9_ConfidenceCategory ==
    qpc = "displayed" =>
        LET c == formatted.confidence
            label == display.confidence_indicator
        IN /\ (label = "(green) High confidence") <=> (c >= 800)
           /\ (label = "(yellow) Medium confidence") <=> (c >= 500 /\ c < 800)
           /\ (label = "(red) Low confidence") <=> (c < 500)

C9_Witness ==
    /\ qpc = "displayed"
    /\ formatted.confidence = 800
    /\ display.confidence_indicator = "(green) High confidence"

\* C10 (as claimed): for every confidence c in [0, 1] the percentage string of
\* format_for_display is round(c * 100), the nearest integer, followed by '%'.
C10_PctRounded ==
    (qpc = "displayed" /\ formatted.confidence \in 0..1000) =>
        display.confidence_pct
          = ToString(RoundNearest(formatted.confidence * 100, 1000)) \o "%"

\* C10 (amended): for every confidence c in [0, 1] the percentage string is
\* int(c * 100) followed by '%': c * 100 truncated toward zero (on exact
\* decimals, the integer n with n <= c * 100 < n + 1), not rounded to the
\* nearest integer.
C10_PctTruncated ==
    (qpc = "displayed" /\ formatted.confidence \in 0..1000) =>
        \E n \in 0..100 :
            /\ 10 * n <= formatted.confidence
            /\ formatted.confidence < 10 * (n + 1)
            /\ display.confidence_pct = ToString(n) \o "%"

C10_Witness ==
    /\ qpc = "displayed"
    /\ formatted.confidence = 856
    /\ display.confidence_pct = "85%"

(***************************************************************************)
(* Properties of process_uploaded_file                                     *)
(***************************************************************************)
\* C11: once process_uploaded_file has finished, by returning the text or by
\* raising, the temporary directory it made and the file it staged in it no
\* longer exist.
C11_TempRemoved ==
    (fpc \in {"returned", "raised"} /\ temp_dir # 0)
        => (temp_dir \notin fs_dirs /\ temp_dir \notin fs_files)

(***************************************************************************)
(* Properties of index_document and bulk_index_documents                   *)
(***************************************************************************)
\* Caller p is in index_document with the id omitted, the record count was
\* read and doc_id = points_count + 1 is bound, the upsert not yet issued.
AssignedByCount(p) ==
    /\ calls[p].pc = "upsert"
    /\ IsNone(calls[p].arg)
    /\ calls[p].counted

\* C12: index_document returns the id it upserted under, the caller's when
\* given; and, calls coming one after the other, the id points_count + 1
\* assigned to an omitted-id call is not the id of a record already in the
\* collection.
C12_AssignedIdIsFree ==
    /\ (calls[1].pc = "returned" /\ calls[1].op = "index_document")
          => /\ calls[1].result = Returned(calls[1].doc_id)
             /\ ~IsNone(calls[1].arg) => calls[1].doc_id = calls[1].arg.id
    /\ AssignedByCount(1) => calls[1].doc_id \notin DOMAIN collection

(***************************************************************************)
(* Properties of search                                                    *)
(***************************************************************************)
\* The embedding call or the store query of the request's search failed.
SearchFailed ==
    /\ ~IsNone(search_io)
    /\ IsRaised(search_io.embedded) \/ IsRaised(search_io.answered)

\* C14: when the embedding call or the store query fails during search,
\* search raises that error and so does search_and_answer: no answer is
\* returned and the completion provider is not called.
C14_SearchFailurePropagates ==
    SearchFailed =>
        /\ qpc = "raised"
        /\ error = [message |-> IF IsRaised(search_io.embedded)
                                THEN search_io.embedded.raised
                                ELSE search_io.answered.raised]
        /\ llm_calls = 0
        /\ IsNone(answer_data)
        /\ IsNone(results)

\* A store query that failed after the embedding succeeded.
C14_Witness ==
    /\ qpc = "raised"
    /\ ~IsNone(search_io)
    /\ ~IsRaised(search_io.embedded)
    /\ IsRaised(search_io.answered)
    /\ collection # <<>>

\* C18: search returns one hit per result of the store, in the store's
\* order, with the result's id, score and payload, so at most `limit` hits
\* and none for an empty result; and it leaves the collection as it was.
C18_HitsMirrorStore ==
    [][(qpc = "idle" /\ qpc' = "searched") =>
          /\ Len(search_results') = Len(search_io'.answered.points)
          /\ Len(search_results') <= limit'
          /\ \A i \in 1..Len(search_results') :
               /\ DOMAIN search_results'[i] = {"id", "score", "payload"}
               /\ search_results'[i].id = search_io'.answered.points[i].id
               /\ search_results'[i].score = search_io'.answered.points[i].score
               /\ search_results'[i].payload = search_io'.answered.points[i].payload
          /\ collection' = collection]_vars

\* A search answered with fewer points than stored, and more than one.
C18_Witness ==
    /\ qpc = "searched"
    /\ Len(search_results) = limit
    /\ limit >= 2
    /\ PointsCount(collection) > limit
    /\ search_results[1].id > search_results[2].id

\* C13: after index_document(text, metadata, id) has succeeded, a search
\* with limit 1 over the collection holding only that record returns exactly
\* one hit, with the indexed id and the indexed metadata as payload.
C13_RoundTrip ==
    ( /\ calls[1].pc = "returned"
      /\ qpc = "searched"
      /\ limit = 1
      /\ DOMAIN collection = {calls[1].doc_id} )
    => /\ Len(search_results) = 1
       /\ search_results[1].id = calls[1].result.returned
       /\ search_results[1].payload = calls[1].metadata

\* The record with the answer "2 years." indexed under id 1 and found.
C13_Witness ==
    /\ calls[1].pc = "returned"
    /\ calls[1].arg = [id |-> 1]
    /\ qpc = "searched"
    /\ query = "warranty period"
    /\ limit = 1
    /\ DOMAIN collection = {1}
    /\ Len(search_results) = 1
    /\ search_results[1].payload # None
    /\ "answer" \in DOMAIN search_results[1].payload
    /\ search_results[1].payload.answer = "2 years."

(***************************************************************************)
(* Properties of the formatter on malformed input                          *)
(***************************************************************************)
\* C15: a formatting failure never propagates.  When the body of
\* format_results raises, the formatted result is the degraded answer with
\* the error message as its text; when the body of format_for_display
\* raises, what it returns carries the error message as its answer; and
\* what format_for_display returns always has an answer, sources, a
\* confidence, a confidence label and a percentage string.
C15_DegradedAnswer ==
    /\ qpc # "raised"
    /\ (qpc \in {"formatted", "displayed"} /\ ~IsNone(results)
          /\ IsRaised(FormatResultsBody(results)))
       => /\ formatted.answer = "Error formatting results: "
                                 \o FormatResultsBody(results).raised
          /\ {"answer", "sources", "confidence"} \subseteq DOMAIN formatted
    /\ qpc = "displayed"
       => /\ {"answer", "sources", "confidence", "confidence_indicator",
              "confidence_pct"} \subseteq DOMAIN display
          /\ IsRaised(FormatForDisplayBody(formatted))
               => display.answer # formatted.answer

(***************************************************************************)
(* Properties of the chunk offsets and cut points                          *)
(***************************************************************************)
\* C16: the start offset of every chunk is non-negative and strictly greater
\* than the start offset of the chunk before it.
C16_StartsIncrease ==
    \A i \in 1..Len(chunks) :
        /\ chunks[i].start >= 0
        /\ i > 1 => chunks[i].start > chunks[i - 1].start

\* The offsets p at which `sub` occurs in text, past the midpoint of the
\* window that starts at st and wholly before the candidate end.
BreaksInRange(sub, st) ==
    {p \in 0..(Len(text) - Len(sub)) :
        /\ \A k \in 1..Len(sub) : text[p + k] = sub[k]
        /\ 2 * p > 2 * st + chunk_size
        /\ p + Len(sub) <= st + chunk_size}

\* The largest element of a non-empty set of offsets.
Last(offsets) == CHOOSE p \in offsets : \A q \in offsets : q <= p

\* The end the cut-point rule gives the chunk that starts at st.
RuleEnd(st) ==
    IF st + chunk_size >= Len(text) THEN Len(text)
    ELSE IF BreaksInRange(<<NL, NL>>, st) # {}
         THEN Last(BreaksInRange(<<NL, NL>>, st))
    ELSE IF BreaksInRange(<<".", " ">>, st) # {}
         THEN Last(BreaksInRange(<<".", " ">>, st)) + 1
    ELSE st + chunk_size

\* C17: a chunk whose candidate end is before the end of the text ends at
\* the last double newline past the midpoint of its window, else just after
\* the last period followed by a space past the midpoint, else at the
\* candidate end; a chunk whose candidate end is the end of the text ends
\* there.
C17_CutPointRule ==
    \A i \in 1..Len(chunks) : chunks[i].end = RuleEnd(chunks[i].start)

\* Caller p's call of index_document or bulk_index_documents is over.
Finished(p) == calls[p].pc \in {"returned", "raised"}

\* C19: a call of index_document whose embedding fails ends with an error,
\* has issued no upsert and has left the collection unchanged; a call of
\* index_document or bulk_index_documents whose upsert fails ends with an
\* error and returns no id; and a call that returns has stored its points.
C19_FailuresSurface ==
    [][\A p \in Callers :
         (~Finished(p) /\ Finished(p)') =>
            /\ (calls'[p].op = "index_document" /\ ~calls'[p].embedded)
                 => /\ calls'[p].pc = "raised"
                    /\ IsRaised(calls'[p].result)
                    /\ calls'[p].upserts = 0
                    /\ collection' = collection
            /\ (calls'[p].upserts = 1 /\ calls'[p].stored = 0)
                 => /\ calls'[p].pc = "raised"
                    /\ IsRaised(calls'[p].result)
                    /\ collection' = collection
            /\ calls'[p].pc = "returned"
                 => /\ calls'[p].stored = 1
                    /\ calls'[p].op = "index_document"
                         => /\ calls'[p].embedded
                            /\ calls'[p].result = Returned(calls'[p].doc_id)
                            /\ collection'[calls'[p].doc_id] = calls'[p].metadata]_vars

\* An upsert of index_document that failed on a collection with records,
\* while the other caller's bulk upsert had failed too.
C19_Witness ==
    /\ calls[1].pc = "raised"
    /\ calls[1].op = "index_document"
    /\ calls[1].upserts = 1
    /\ calls[1].stored = 0
    /\ calls[2].pc = "raised"
    /\ calls[2].op = "bulk_index_documents"
    /\ collection # <<>>

\* Callers p and q are in index_document with the id omitted and have read
\* the same record count.
ReadSameCount(p, q) ==
    /\ p # q
    /\ \A c \in {p, q} :
         /\ calls[c].pc \in {"upsert", "returned"}
         /\ calls[c].op = "index_document"
         /\ IsNone(calls[c].arg)
         /\ calls[c].counted
    /\ calls[p].count = calls[q].count

\* C20: two concurrent index_document calls with omitted ids that read the
\* same record count are assigned the same id; when both have upserted and
\* returned, both report that id, the collection has grown by at most one
\* record, and the record under that id is one of the two.
C20_RaceOverwrites ==
    \A p, q \in Callers :
        ReadSameCount(p, q) =>
            /\ calls[p].doc_id = calls[q].doc_id
            /\ (calls[p].pc = "returned" /\ calls[q].pc = "returned")
                 => /\ calls[p].result = calls[q].result
                    /\ PointsCount(collection) <= calls[p].count + 1
                    /\ calls[p].doc_id \in DOMAIN collection
                         => collection[calls[p].doc_id]
                               \in {calls[p].metadata, calls[q].metadata}

\* Both calls returned id 1 for different metadata and the collection holds
\* one record, the second caller's.
C20_Witness ==
    /\ ReadSameCount(1, 2)
    /\ calls[1].pc = "returned"
    /\ calls[2].pc = "returned"
    /\ calls[1].result = Returned(1)
    /\ calls[2].result = Returned(1)
    /\ calls[1].metadata # calls[2].metadata
    /\ DOMAIN collection = {1}
    /\ collection[1] = calls[2].metadata

\* Caller p is in index_document with the id omitted and its record-count
\* lookup has raised; the upsert is not yet issued.
CountFailed(p) ==
    /\ calls[p].pc = "upsert"
    /\ calls[p].op = "index_document"
    /\ IsNone(calls[p].arg)
    /\ ~calls[p].counted

\* C21: when the id is omitted and the record-count lookup fails, the call
\* does not end there: it goes on to the upsert with id 1, the collection
\* untouched so far; and when that upsert succeeds the call returns 1 and the
\* record under id 1 is the new one, an existing record under id 1 being
\* replaced while every other record stays.
C21_CountFailureSwallowed ==
    [][\A p \in Callers :
         /\ (calls[p].pc = "count" /\ calls'[p].pc # "count"
               /\ ~calls'[p].counted)
              => /\ calls'[p].pc = "upsert"
                 /\ calls'[p].doc_id = 1
                 /\ ~IsRaised(calls'[p].result)
                 /\ calls'[p].upserts = 0
                 /\ collection' = collection
         /\ (CountFailed(p) /\ calls'[p].pc = "returned")
              => /\ calls'[p].result = Returned(1)
                 /\ DOMAIN collection' = DOMAIN collection \cup {1}
                 /\ collection'[1] = calls[p].metadata
                 /\ \A i \in DOMAIN collection \ {1} :
                      collection'[i] = collection[i]]_vars

\* The lookup failed while another record is stored under id 1, and the
\* upsert that will replace it comes next.
C21_Witness ==
    /\ CountFailed(1)
    /\ calls[1].doc_id = 1
    /\ PointsCount(collection) >= 2
    /\ 1 \in DOMAIN collection
    /\ collection[1] # calls[1].metadata

====
